---- MODULE Spec2Model ----
(***************************************************************************)
(* Two-tier cache of interpreter metadata, virtualenv/discovery/            *)
(* cached_py_info.py: from_exe -> _get_from_cache -> _get_via_file_cache    *)
(* -> _run_subprocess, and clear.                                           *)
(*                                                                          *)
(* Several processes run the module.  Each has its own _CACHE; the app-data *)
(* store, its per-path locks and the file system are shared.  A path string *)
(* is a sequence of components (<<".", "py">> is "./py"); Python's None for *)
(* a path-valued field is the empty sequence, which no path has.            *)
(***************************************************************************)
EXTENDS Integers, Sequences, FiniteSets, TLC

VARIABLES
    mtime,      \* st_mtime of the file behind "py" and its symlink "ln"; 0: no such file
    sysOnDisk,  \* whether the file a record's system_executable names exists
    store,      \* the app-data store: handle (path) -> entry or NoneVal
    lock,       \* the store's lock per handle: the process holding it, or 0
    cache,      \* _CACHE of each process: Path -> PythonInfo | RuntimeError | NoneVal (absent)
    pc,         \* where each process is inside from_exe / clear
    loc,        \* the arguments and locals of each process's current (or last) call
    ncalls,     \* calls (from_exe, clear) each process and its successors have made
    child       \* inside _run_subprocess: the cookies, the child's stdout and what is made of it

vars == <<mtime, sysOnDisk, store, lock, cache, pc, loc, ncalls, child>>

----------------------------------------------------------------------------
(* Bounds of the model *)

MaxMtime == 2
MaxCalls == 2
MaxNoise == 1
\* the length of a cookie: 32 in the module, cut down for the model
COOKIE_LENGTH == 2

Procs == {1, 2}

----------------------------------------------------------------------------
(* Values *)

NoneVal == [type |-> "None"]
NoPath == <<>>

\* the strings a caller passes as exe
Py == <<"py">>
DotPy == <<".", "py">>
Ln == <<"ln">>
SysExecutable == <<"self">>
Exes == {Py, DotPy, Ln, SysExecutable}

\* what a record's system_executable names
SysExe == <<"sys">>

\* the app_data argument: a store on disk, or None; AppDataDisabled is what the
\* module puts in place of None
AppData == [type |-> "AppData"]
AppDataDisabled == [type |-> "AppDataDisabled"]

\* errno of the OSError Popen raises on a file that exists (13: permission
\* denied) and on none (2), and the exit codes of a child that fails
SpawnErrnos == {13}
NoSuchFile == {2}
ExitCodes == {3}

IsPythonInfo(v) == v.type = "PythonInfo"
IsException(v) == v.type = "RuntimeError"

\* PythonInfo: the fields the module reads and writes, and the rest of what the
\* interrogation reports (info: the version of the file that was run)
PythonInfo(exe, sys_exe, info) ==
    [type |-> "PythonInfo", executable |-> exe, system_executable |-> sys_exe, info |-> info]


\* the RuntimeError of a failed interrogation: its message names exe and code,
\* and out and err where they are not empty
RuntimeError(exe, code, out, err) ==
    [type |-> "RuntimeError", exe |-> exe, code |-> code, out |-> out, err |-> err]

\* an exception that leaves from_exe or clear
Raised(exc) == [type |-> "Raised", exc |-> exc]
ValueError == [type |-> "ValueError"]
KeyError == [type |-> "KeyError"]
DecodeError == [type |-> "DecodeError"]
AttributeError == [type |-> "AttributeError"]

----------------------------------------------------------------------------
(* The pure steps of the module *)

\* the symlink resolved: Path(exe).resolve()
PathOf_Resolved(exe) ==
    LET path == SelectSeq(exe, LAMBDA c : c # ".")
    IN  IF path = <<"ln">> THEN <<"py">> ELSE path

\* Path(exe): pathlib drops "." components and resolves no symlink
PathOf(exe) == SelectSeq(exe, LAMBDA c : c # ".")

\* the paths there are: the handles of the store and the keys of _CACHE
Keys == {Py, Ln, SysExecutable}

\* str(path)
PathText(path) == path

\* path.stat().st_mtime, or -1 when stat raises OSError: "ln" is a symlink to
\* "py" and stat follows it; the running interpreter's file is left alone
StatMtime(path, mt) ==
    LET t == IF path = SysExecutable THEN 1 ELSE mt
    IN  IF t = 0 THEN -1 ELSE t

\* os.path.exists(sys_exe)
PathExists(path, disk) == path = SysExe /\ disk

\* a recorded failure is not served from _CACHE
MemoryHit_RecordsOnly(c, exe_path, ignore_cache) ==
    ~ignore_cache /\ c[exe_path] # NoneVal /\ ~IsException(c[exe_path])

\* ignore_cache is not looked at
MemoryHit_FlagIgnored(c, exe_path, ignore_cache) == c[exe_path] # NoneVal

\* the lookup in _CACHE left out
MemoryHit_Never(c, exe_path, ignore_cache) == FALSE

\* "not ignore_cache and exe_path in _CACHE"
MemoryHit(c, exe_path, ignore_cache) == ~ignore_cache /\ c[exe_path] # NoneVal

\* the outcome is cached and every other entry dropped
CacheStore_Alone(c, exe_path, py_info) ==
    [k \in DOMAIN c |-> IF k = exe_path THEN py_info ELSE NoneVal]

\* "_CACHE[exe_path] = py_info"
CacheStore(c, exe_path, py_info) == [c EXCEPT ![exe_path] = py_info]

\* the record returned as it was cached or stored
FixExecutable_Keep(result, exe) == result

\* "if isinstance(result, PythonInfo): result.executable = exe"
FixExecutable(result, exe) ==
    IF IsPythonInfo(result) THEN [result EXCEPT !.executable = exe] ELSE result

\* the failure is swallowed whatever raise_on_error is
FromExeReturn_Swallow(result, raise_on_error) ==
    IF IsException(result) THEN NoneVal ELSE result

\* from_exe's tail: raise the failure, or log it and return None
FromExeReturn(result, raise_on_error) ==
    IF IsException(result)
    THEN IF raise_on_error THEN Raised(result) ELSE NoneVal
    ELSE result

\* None is passed on as it is
AdapterOf_Keep(app_data) == app_data

\* "if app_data is None: app_data = AppDataDisabled()"
AdapterOf(app_data) == IF app_data = NoneVal THEN AppDataDisabled ELSE app_data

\* the keys of a store entry and of the mapping a record exports
EntryKeys == {"path", "st_mtime", "content"}
RecordKeys == {"executable", "system_executable", "info"}

\* cls._from_dict(content) builds a record from this content; from any other it
\* raises
Decodable(content) == DOMAIN content = RecordKeys

\* py_info._to_dict() and cls._from_dict(content): the mapping of the fields
ToDict(py_info) == [k \in DOMAIN py_info \ {"type"} |-> py_info[k]]
FromDict(content) ==
    [k \in DOMAIN content \cup {"type"} |->
        IF k = "type" THEN "PythonInfo" ELSE content[k]]

\* the entry written after a successful interrogation
MakeEntry(path_modified, path_text, py_info) ==
    [st_mtime |-> path_modified, path |-> path_text, content |-> ToDict(py_info)]

\* the mtime left out of the comparison
EntryMatches_PathOnly(data, path_text, path_modified) == data.path = path_text

\* "of_path == path_text and of_st_mtime == path_modified"
EntryMatches(data, path_text, path_modified) ==
    data.path = path_text /\ data.st_mtime = path_modified

\* the system executable is not looked for
SysExeGone_Unchecked(py_info, disk) == FALSE

\* "sys_exe is not None and not os.path.exists(sys_exe)"
SysExeGone(py_info, disk) ==
    py_info.system_executable # NoPath /\ ~PathExists(py_info.system_executable, disk)

\* the outcome written whatever it is
ShouldWrite_Always(failure) == TRUE

\* "if failure is None:" write the entry
ShouldWrite(failure) == failure = NoneVal

\* os_error.strerror
Strerror(errno) ==
    IF errno = 13 THEN "Permission denied"
    ELSE IF errno = 2 THEN "No such file or directory"
    ELSE "Unknown error"

\* the OSError is taken for a child that ended well
OnOSError_ExitZero(errno) == [out |-> "", err |-> Strerror(errno), code |-> 0]

\* "except OSError as os_error: out, err, code = "", os_error.strerror, os_error.errno"
OnOSError(errno) == [out |-> "", err |-> Strerror(errno), code |-> errno]

\* "out, err = process.communicate(); code = process.returncode": a child that
\* fails prints a traceback to stderr
OnExit(returncode) ==
    [out |-> IF returncode = 0 THEN "payload" ELSE "",
     err |-> IF returncode = 0 THEN "" ELSE "Traceback",
     code |-> returncode]

\* _run_subprocess once the child has ended with `code` (or Popen raised
\* OSError with errno `code`): <<failure, result>>
RunResult(exe, code, sys_exe, info) ==
    LET ended == IF code \in SpawnErrnos \cup NoSuchFile THEN OnOSError(code) ELSE OnExit(code)
    IN  IF ended.code = 0
        THEN <<NoneVal, PythonInfo(exe, sys_exe, info)>>
        ELSE <<RuntimeError(exe, ended.code, ended.out, ended.err), NoneVal>>

----------------------------------------------------------------------------
(* The store behind app_data.py_info(path) *)

\* an entry on its way to the disk: write() is not one step of the file system,
\* and a reader that does not wait for the lock finds the entry cut short
TornEntry(data) == [st_mtime |-> data.st_mtime]

\* "data["path"], data["st_mtime"], data["content"]" finds its keys
HasKeys(data) == {"path", "st_mtime", "content"} \subseteq DOMAIN data

StoreExists(adapter, st, key) == adapter = AppData /\ st[key] # NoneVal
StoreRead(adapter, st, key) == IF adapter = AppData THEN st[key] ELSE NoneVal
StoreWrite(adapter, st, key, data) ==
    IF adapter = AppData THEN [st EXCEPT ![key] = data] ELSE st
StoreRemove(adapter, st, key) ==
    IF adapter = AppData THEN [st EXCEPT ![key] = NoneVal] ELSE st
\* locked(): whether p may enter, and the locks once it has entered / left
LockFree(adapter, l, key) == adapter # AppData \/ l[key] = 0
LockAcquire(adapter, l, key, p) ==
    IF adapter = AppData THEN [l EXCEPT ![key] = p] ELSE l
LockRelease(adapter, l, key, p) ==
    IF adapter = AppData /\ l[key] = p THEN [l EXCEPT ![key] = 0] ELSE l

----------------------------------------------------------------------------
(* State *)

\* _CACHE at import: one entry, for the running interpreter
InitCache ==
    [k \in Keys |->
        IF k = PathOf(SysExecutable) THEN PythonInfo(SysExecutable, NoPath, 1) ELSE NoneVal]

\* the frame of a call.  Arguments and locals: op, exe, app_data, raise_on_error,
\* ignore_cache, path_modified, py_info, exc (an exception on its way out).
\* What the call did, for the properties: before (the _CACHE value of the key when
\* the call began), stale (the file's mtime when the call began, if the store then
\* held an entry for the key with another st_mtime; 0 if not), tier (which tier produced the result), removed (why the entry
\* was removed), spawned (interrogations run), ops (store operations performed),
\* outcome (what _get_from_cache returned), returned (what the caller got) and
\* os_error (the errno of the OSError Popen raised in this call; 0 if it raised none).
NoCall ==
    [op |-> "none", exe |-> NoPath, app_data |-> NoneVal, raise_on_error |-> TRUE,
     ignore_cache |-> FALSE, path_modified |-> 0, py_info |-> NoneVal, exc |-> NoneVal,
     before |-> NoneVal, stale |-> 0, tier |-> "none", removed |-> "no", spawned |-> 0, ops |-> {},
     outcome |-> NoneVal, returned |-> NoneVal, os_error |-> 0]

\* no interrogation whose stdout is being looked at
NoChild == [at |-> "none"]

Init ==
    /\ mtime = 1
    /\ sysOnDisk = TRUE
    /\ store = [k \in Keys |-> NoneVal]
    /\ lock = [k \in Keys |-> 0]
    /\ cache = [p \in Procs |-> InitCache]
    /\ pc = [p \in Procs |-> "done"]
    /\ loc = [p \in Procs |-> NoCall]
    /\ ncalls = [p \in Procs |-> 0]
    /\ child = NoChild

KeyOf(p) == PathOf(loc[p].exe)
Adapter(p) == AdapterOf(loc[p].app_data)

----------------------------------------------------------------------------
(* from_exe *)

\* from_exe(cls, app_data, exe, env, raise_on_error, ignore_cache) up to the
\* store's lock: a hit in _CACHE ends the call; otherwise the mtime is read and
\* the store handle is taken.  Only the tail of from_exe reads raise_on_error:
\* the frame takes the caller's value in the step that runs the tail.
FromExe(p, exe, app_data, raise_on_error, ignore_cache) ==
    /\ pc[p] = "done"
    /\ ncalls' = [ncalls EXCEPT ![p] = @ + 1]
    /\ LET exe_path == PathOf(exe)
           frame == [NoCall EXCEPT !.op = "resolve", !.exe = exe, !.app_data = app_data,
                        !.ignore_cache = ignore_cache, !.before = cache[p][exe_path],
                        !.stale = IF /\ StoreExists(app_data, store, exe_path)
                                     /\ store[exe_path].st_mtime # StatMtime(exe_path, mtime)
                                  THEN StatMtime(exe_path, mtime) ELSE 0]
       IN  IF MemoryHit(cache[p], exe_path, ignore_cache)
           THEN LET result == FixExecutable(cache[p][exe_path], exe)
                IN  /\ cache' = [cache EXCEPT ![p][exe_path] = result]
                    /\ loc' = [loc EXCEPT ![p] =
                                  [frame EXCEPT !.tier = "memory", !.outcome = result,
                                      !.raise_on_error = raise_on_error,
                                      !.returned = FromExeReturn(result, raise_on_error)]]
                    /\ pc' = pc
           ELSE IF AdapterOf(app_data) = NoneVal
           THEN \* None.py_info(path)
                /\ loc' = [loc EXCEPT ![p] =
                              [frame EXCEPT !.exc = AttributeError,
                                  !.raise_on_error = raise_on_error,
                                  !.returned = Raised(AttributeError)]]
                /\ UNCHANGED <<cache, pc>>
           ELSE /\ loc' = [loc EXCEPT ![p] =
                              [frame EXCEPT !.path_modified = StatMtime(exe_path, mtime),
                                  !.ops = {"locate"}]]
                /\ pc' = [pc EXCEPT ![p] = "lock"]
                /\ UNCHANGED cache
    /\ UNCHANGED <<mtime, sysOnDisk, store, lock, child>>

\* the block entered without the lock
Lock_NotTaken(p) ==
    /\ pc[p] = "lock"
    /\ pc' = [pc EXCEPT ![p] = "check"]
    /\ UNCHANGED <<mtime, sysOnDisk, store, lock, cache, loc, ncalls, child>>

\* "with py_info_store.locked():"
Lock(p) ==
    /\ pc[p] = "lock"
    /\ LockFree(Adapter(p), lock, KeyOf(p))
    /\ lock' = LockAcquire(Adapter(p), lock, KeyOf(p), p)
    /\ loc' = [loc EXCEPT ![p].ops = @ \cup {"lock"}]
    /\ pc' = [pc EXCEPT ![p] = "check"]
    /\ UNCHANGED <<mtime, sysOnDisk, store, cache, ncalls, child>>

\* "if py_info_store.exists(): ..." : load the entry if it matches, remove it if
\* it does not or if its system executable is gone
Check(p) ==
    /\ pc[p] = "check"
    /\ LET key == KeyOf(p)
           present == StoreExists(Adapter(p), store, key)
           data == StoreRead(Adapter(p), store, key)
           matches == present /\ EntryMatches(data, PathText(key), loc[p].path_modified)
           loaded == FromDict(data.content)
           gone == matches /\ SysExeGone(loaded, sysOnDisk)
           py_info == IF matches /\ ~gone THEN loaded ELSE NoneVal
       IN  IF present /\ ~HasKeys(data)
           THEN \* the subscript raises and the exception leaves the locked block
                /\ loc' = [loc EXCEPT ![p].exc = KeyError,
                              ![p].ops = @ \cup {"exists", "read"}]
                /\ pc' = [pc EXCEPT ![p] = "unlock"]
                /\ UNCHANGED store
           ELSE IF matches /\ ~Decodable(data.content)
           THEN \* cls._from_dict raises and the exception leaves the locked block
                /\ loc' = [loc EXCEPT ![p].exc = DecodeError,
                              ![p].ops = @ \cup {"exists", "read"}]
                /\ pc' = [pc EXCEPT ![p] = "unlock"]
                /\ UNCHANGED store
           ELSE
           /\ store' = IF present /\ py_info = NoneVal
                       THEN StoreRemove(Adapter(p), store, key) ELSE store
           /\ loc' = [loc EXCEPT ![p].py_info = py_info,
                         ![p].tier = IF py_info = NoneVal THEN "none" ELSE "store",
                         ![p].removed = IF ~present \/ py_info # NoneVal THEN "no"
                                        ELSE IF gone THEN "sys_exe" ELSE "stale",
                         ![p].ops = @ \cup {"exists"}
                                      \cup (IF present THEN {"read"} ELSE {})
                                      \cup (IF present /\ py_info = NoneVal
                                            THEN {"remove"} ELSE {})]
           /\ pc' = [pc EXCEPT ![p] = IF py_info = NoneVal THEN "run" ELSE "unlock"]
    /\ UNCHANGED <<mtime, sysOnDisk, lock, cache, ncalls, child>>

\* the codes Popen and the child can end with
SpawnCodes(p) ==
    IF StatMtime(KeyOf(p), mtime) = -1 THEN NoSuchFile
    ELSE {0} \cup ExitCodes \cup SpawnErrnos

\* _run_subprocess with a payload that decodes: a record, or a failure
RunSubprocess(p, code, sys_exe) ==
    /\ pc[p] = "run"
    /\ code \in SpawnCodes(p)
    /\ code # 0 => sys_exe = NoPath
    /\ LET r == RunResult(loc[p].exe, code, sys_exe, StatMtime(KeyOf(p), mtime))
           failure == r[1]
           py_info == r[2]
       IN  /\ loc' = [loc EXCEPT ![p].py_info = IF failure = NoneVal THEN py_info ELSE failure,
                         ![p].tier = "fresh",
                         ![p].spawned = @ + 1,
                         ![p].os_error = IF code \in SpawnErrnos \cup NoSuchFile THEN code ELSE 0]
           /\ pc' = [pc EXCEPT ![p] = IF ShouldWrite(failure) THEN "write" ELSE "unlock"]
    /\ UNCHANGED <<mtime, sysOnDisk, store, lock, cache, ncalls, child>>

\* _run_subprocess with exit code 0 and a payload cls._from_json cannot decode:
\* the decoder's exception leaves the locked block
RunUndecodable(p) ==
    /\ pc[p] = "run"
    /\ 0 \in SpawnCodes(p)
    /\ loc' = [loc EXCEPT ![p].exc = ValueError, ![p].tier = "fresh", ![p].spawned = @ + 1]
    /\ pc' = [pc EXCEPT ![p] = "unlock"]
    /\ UNCHANGED <<mtime, sysOnDisk, store, lock, cache, ncalls, child>>

\* "py_info_store.write(data)" begins: the entry is on its way to the disk
Write(p) ==
    /\ pc[p] = "write"
    /\ store' = StoreWrite(Adapter(p), store, KeyOf(p),
                    TornEntry(MakeEntry(loc[p].path_modified, PathText(KeyOf(p)), loc[p].py_info)))
    /\ loc' = [loc EXCEPT ![p].ops = @ \cup {"write"}]
    /\ pc' = [pc EXCEPT ![p] = "written"]
    /\ UNCHANGED <<mtime, sysOnDisk, lock, cache, ncalls, child>>

\* "py_info_store.write(data)" ends: the entry is on the disk
Written(p) ==
    /\ pc[p] = "written"
    /\ store' = StoreWrite(Adapter(p), store, KeyOf(p),
                    MakeEntry(loc[p].path_modified, PathText(KeyOf(p)), loc[p].py_info))
    /\ pc' = [pc EXCEPT ![p] = "unlock"]
    /\ UNCHANGED <<mtime, sysOnDisk, lock, cache, loc, ncalls, child>>

\* the lock is given back only when the block ends without an exception
Unlock_HeldOnRaise(p, raise_on_error) ==
    /\ pc[p] = "unlock"
    /\ IF loc[p].exc # NoneVal
       THEN /\ loc' = [loc EXCEPT ![p].raise_on_error = raise_on_error,
                         ![p].returned = Raised(loc[p].exc)]
            /\ UNCHANGED <<cache, lock>>
       ELSE LET result == FixExecutable(loc[p].py_info, loc[p].exe)
            IN  /\ lock' = LockRelease(Adapter(p), lock, KeyOf(p), p)
                /\ cache' = [cache EXCEPT ![p][KeyOf(p)] = result]
                /\ loc' = [loc EXCEPT ![p].outcome = result,
                              ![p].raise_on_error = raise_on_error,
                              ![p].returned = FromExeReturn(result, raise_on_error)]
    /\ pc' = [pc EXCEPT ![p] = "done"]
    /\ UNCHANGED <<mtime, sysOnDisk, store, ncalls, child>>

\* the end of the locked block, then the tail of _get_from_cache and of from_exe
Unlock(p, raise_on_error) ==
    /\ pc[p] = "unlock"
    /\ lock' = LockRelease(Adapter(p), lock, KeyOf(p), p)
    /\ IF loc[p].exc # NoneVal
       THEN /\ loc' = [loc EXCEPT ![p].raise_on_error = raise_on_error,
                         ![p].returned = Raised(loc[p].exc)]
            /\ UNCHANGED cache
       ELSE LET result == FixExecutable(loc[p].py_info, loc[p].exe)
            IN  /\ cache' = [cache EXCEPT ![p] = CacheStore(@, KeyOf(p), result)]
                /\ loc' = [loc EXCEPT ![p].outcome = result,
                              ![p].raise_on_error = raise_on_error,
                              ![p].returned = FromExeReturn(result, raise_on_error)]
    /\ pc' = [pc EXCEPT ![p] = "done"]
    /\ UNCHANGED <<mtime, sysOnDisk, store, ncalls, child>>

----------------------------------------------------------------------------
(* clear, and the life of a process *)

\* py_info_clear() of the store: every entry dropped, each under its lock
StoreClear(st) == [k \in Keys |-> NoneVal]

\* clear(app_data): "app_data.py_info_clear()" then "_CACHE.clear()"
Clear(p, app_data) ==
    /\ pc[p] = "done"
    /\ ncalls' = [ncalls EXCEPT ![p] = @ + 1]
    /\ IF app_data = NoneVal
       THEN \* None.py_info_clear()
            /\ loc' = [loc EXCEPT ![p] =
                          [NoCall EXCEPT !.op = "clear", !.exc = AttributeError,
                              !.returned = Raised(AttributeError)]]
            /\ UNCHANGED <<store, cache>>
       ELSE /\ \A k \in Keys : lock[k] = 0
            /\ store' = StoreClear(store)
            /\ cache' = [cache EXCEPT ![p] = [k \in Keys |-> NoneVal]]
            /\ loc' = [loc EXCEPT ![p] = [NoCall EXCEPT !.op = "clear", !.app_data = app_data]]
    /\ UNCHANGED <<mtime, sysOnDisk, lock, pc, child>>

\* the process ends and a new one starts: _CACHE is built again at import
Restart(p) ==
    /\ pc[p] = "done"
    /\ loc[p].op # "none"
    /\ cache' = [cache EXCEPT ![p] = InitCache]
    /\ loc' = [loc EXCEPT ![p] = NoCall]
    /\ UNCHANGED <<mtime, sysOnDisk, store, lock, pc, ncalls, child>>

----------------------------------------------------------------------------
(* The file system around the processes *)

\* the executable is rebuilt or replaced: a new mtime
Touch ==
    /\ mtime \in 1..(MaxMtime - 1)
    /\ mtime' = mtime + 1
    /\ UNCHANGED <<sysOnDisk, store, lock, cache, pc, loc, ncalls, child>>

\* what a damaged or foreign entry for handle k can look like: a key missing, a
\* key too many, a content that is no record's export
Malformed(k) ==
    { [st_mtime |-> 1, path |-> PathText(k)],
      [st_mtime |-> 1, path |-> PathText(k),
       content |-> ToDict(PythonInfo(k, NoPath, 1)), version |-> 2],
      [st_mtime |-> 1, path |-> PathText(k), content |-> [executable |-> k]] }

\* the entry of handle k is damaged on disk, or written by another program,
\* while no process holds the handle's lock
Corrupt(k, data) ==
    /\ lock[k] = 0
    /\ data \in Malformed(k)
    /\ store[k] # data
    /\ store' = [store EXCEPT ![k] = data]
    /\ UNCHANGED <<mtime, sysOnDisk, lock, cache, pc, loc, ncalls, child>>

\* the executable is deleted
Unlink ==
    /\ mtime # 0
    /\ mtime' = 0
    /\ UNCHANGED <<sysOnDisk, store, lock, cache, pc, loc, ncalls, child>>

\* the system installation is removed
RemoveSys ==
    /\ sysOnDisk
    /\ sysOnDisk' = FALSE
    /\ UNCHANGED <<mtime, store, lock, cache, pc, loc, ncalls, child>>

----------------------------------------------------------------------------

\* calls made so far
Calls == ncalls[1] + ncalls[2]

\* a step of a from_exe call of process p, whose callers pass these exes and
\* these app_data and make at most `calls` calls, and whose children report
\* these system executables
Resolve(p, exes, adapters, calls, reports) ==
    \/ /\ Calls < calls
       /\ pc[p] = "done"
       /\ \E exe \in exes, app_data \in adapters,
             raise_on_error \in BOOLEAN, ignore_cache \in BOOLEAN :
               FromExe(p, exe, app_data, raise_on_error, ignore_cache)
    \/ Lock(p)
    \/ Check(p)
    \/ /\ pc[p] = "run"
       /\ \E code \in SpawnCodes(p), sys_exe \in reports \cup {NoPath} :
               RunSubprocess(p, code, sys_exe)
    \/ RunUndecodable(p)
    \/ Write(p)
    \/ Written(p)
    \/ \E raise_on_error \in BOOLEAN : Unlock(p, raise_on_error)

\* one process at a time (a new one after each Restart), any request
Next ==
    \/ Resolve(1, Exes, {AppData, NoneVal}, MaxCalls, {NoPath, SysExe})
    \/ Calls < MaxCalls /\ \E app_data \in {AppData, NoneVal} : Clear(1, app_data)
    \/ Restart(1)
    \/ Touch
    \/ RemoveSys

Spec == Init /\ [][Next]_vars

\* two processes at once on the paths of one executable, with a store
NextRace ==
    \/ \E p \in Procs : Resolve(p, {Py, DotPy}, {AppData}, MaxCalls, {NoPath})
    \/ Touch

SpecRace == Init /\ [][NextRace]_vars

\* one process at a time and one request string, one call more
NextRepeat ==
    \/ Resolve(1, {Py}, {AppData, NoneVal}, MaxCalls + 1, {NoPath})
    \/ Calls < MaxCalls + 1 /\ Clear(1, AppData)
    \/ Restart(1)

SpecRepeat == Init /\ [][NextRepeat]_vars

\* one process at a time on one executable whose store entry can be damaged
NextHeal ==
    \/ Resolve(1, {Py, DotPy}, {AppData}, MaxCalls, {NoPath})
    \/ \E data \in Malformed(Py) : Corrupt(Py, data)
    \/ Restart(1)
    \/ Touch

SpecHeal == Init /\ [][NextHeal]_vars

\* one process at a time with a store, on an executable and its symlink
NextKeys ==
    \/ Resolve(1, {Py, DotPy, Ln}, {AppData}, MaxCalls, {NoPath, SysExe})
    \/ Restart(1)
    \/ Touch
    \/ RemoveSys

SpecKeys == Init /\ [][NextKeys]_vars

\* one process at a time on one executable that can be deleted
NextSpawn ==
    \/ Resolve(1, {Py, DotPy}, {AppData, NoneVal}, MaxCalls, {NoPath})
    \/ Restart(1)
    \/ Touch
    \/ Unlink

SpecSpawn == Init /\ [][NextSpawn]_vars

\* two processes at once on one executable whose store entry can be damaged.
\* A call that has begun goes on: the module runs straight through, the lock is
\* granted when it is free, and the child is taken to exit.
NextLive ==
    \/ \E p \in Procs : Resolve(p, {Py}, {AppData}, MaxCalls, {NoPath})
    \/ \E data \in Malformed(Py) : Corrupt(Py, data)

GoesOn(p) == pc[p] # "done" /\ Resolve(p, {Py}, {AppData}, MaxCalls, {NoPath})

SpecLive == Init /\ [][NextLive]_vars /\ \A p \in Procs : WF_vars(GoesOn(p))

----------------------------------------------------------------------------
(* _run_subprocess: the framing of the child's stdout.  A text is a sequence  *)
(* of characters.                                                             *)

\* the characters of a cookie (of the 62 of gen_cookie) and of the child's output
CookieChars == {"a", "b"}
OutChars == {"a", "{"}

\* gen_cookie(): any text of COOKIE_LENGTH cookie characters
Cookies == [1..COOKIE_LENGTH -> CookieChars]

\* what the child can print around and between the markers
Texts == UNION {[1..n -> OutChars] : n \in 0..MaxNoise}

\* cookie[::-1]
Reversed(cookie) == [i \in 1..Len(cookie) |-> cookie[Len(cookie) + 1 - i]]

\* s.find(sub): the lowest index (from 0) where sub occurs in s, or -1
Find(s, sub) ==
    LET hits == {i \in 0..(Len(s) - Len(sub)) : SubSeq(s, i + 1, i + Len(sub)) = sub}
    IN  IF hits = {} THEN -1 ELSE CHOOSE i \in hits : \A j \in hits : i <= j

\* s[:n] and s[n:]
Upto(s, n) == SubSeq(s, 1, n)
From(s, n) == SubSeq(s, n + 1, Len(s))

\* the marker is searched for and always taken as found
MarkerFound_Always(at) == TRUE

\* "if out_starts > -1:", "if out_ends > -1:"
MarkerFound(at) == at > -1

\* the cut is made where the marker begins
SkipCookie_Not(at) == at

\* "out_starts + COOKIE_LENGTH", "out_ends + COOKIE_LENGTH"
SkipCookie(at) == at + COOKIE_LENGTH

\* sys.stdout.write(text) "if text"
StdoutWrite(written, text) == IF text # <<>> THEN Append(written, text) ELSE written

\* what py_info.py and the interpreter's start-up print: noise, the start cookie
\* reversed, the payload, the end cookie reversed, noise; a child that is not
\* py_info.py's may leave a marker out
ChildPrints(noise1, payload, noise2, marks, start_cookie, end_cookie) ==
    noise1 \o (IF marks[1] THEN Reversed(start_cookie) ELSE <<>>) \o payload
           \o (IF marks[2] THEN Reversed(end_cookie) ELSE <<>>) \o noise2

\* the cookies are made, the child runs and ends with code 0: "out" is its stdout
Communicate(start_cookie, end_cookie, noise1, payload, noise2, marks) ==
    /\ child = NoChild
    /\ child' = [at |-> "out", start_cookie |-> start_cookie, end_cookie |-> end_cookie,
                 noise1 |-> noise1, payload |-> payload, noise2 |-> noise2, marks |-> marks,
                 stdout |-> ChildPrints(noise1, payload, noise2, marks, start_cookie, end_cookie),
                 out |-> ChildPrints(noise1, payload, noise2, marks, start_cookie, end_cookie),
                 out_starts |-> -1, out_ends |-> -1,
                 written |-> <<>>]
    /\ UNCHANGED <<mtime, sysOnDisk, store, lock, cache, pc, loc, ncalls>>

\* "out_starts = out.find(start_cookie[::-1])" and the cut before the payload
CutStart ==
    /\ child.at = "out"
    /\ LET out == child.out
           out_starts == Find(out, Reversed(child.start_cookie))
       IN  child' = IF MarkerFound(out_starts)
                    THEN [child EXCEPT !.at = "start", !.out_starts = out_starts,
                             !.written = StdoutWrite(@, Upto(out, out_starts)),
                             !.out = From(out, SkipCookie(out_starts))]
                    ELSE [child EXCEPT !.at = "start", !.out_starts = out_starts]
    /\ UNCHANGED <<mtime, sysOnDisk, store, lock, cache, pc, loc, ncalls>>

\* "out_ends = out.find(end_cookie[::-1])" and the cut after the payload: "out"
\* is now what cls._from_json is given
CutEnd ==
    /\ child.at = "start"
    /\ LET out == child.out
           out_ends == Find(out, Reversed(child.end_cookie))
       IN  child' = IF MarkerFound(out_ends)
                    THEN [child EXCEPT !.at = "end", !.out_ends = out_ends,
                             !.written = StdoutWrite(@, From(out, SkipCookie(out_ends))),
                             !.out = Upto(out, out_ends)]
                    ELSE [child EXCEPT !.at = "end", !.out_ends = out_ends]
    /\ UNCHANGED <<mtime, sysOnDisk, store, lock, cache, pc, loc, ncalls>>

\* one interrogation whose child ends with code 0, any cookies and any output
NextFrame ==
    \/ /\ child = NoChild
       /\ \E start_cookie \in Cookies, end_cookie \in Cookies,
             noise1 \in Texts, payload \in Texts, noise2 \in Texts,
             marks \in BOOLEAN \X BOOLEAN :
               Communicate(start_cookie, end_cookie, noise1, payload, noise2, marks)
    \/ CutStart
    \/ CutEnd

SpecFrame == Init /\ [][NextFrame]_vars

----------------------------------------------------------------------------
(* What the properties speak of *)

\* this step is process p calling from_exe or clear
Calling(p) == ncalls'[p] = ncalls[p] + 1

\* this step is the return of a from_exe call of p that went past _CACHE
Returning(p) == pc[p] = "unlock" /\ pc'[p] = "done"

\* this step ends a from_exe call of p
Ending(p) == pc'[p] = "done" /\ loc'[p].op = "resolve" /\ (Calling(p) \/ Returning(p))

\* p's last call was from_exe and has ended
Resolved(p) == pc[p] = "done" /\ loc[p].op = "resolve"

\* the entry of the handle p's call took from its adapter
HandleEntry(p, st) == StoreRead(Adapter(p), st, KeyOf(p))

----------------------------------------------------------------------------
(* C1: idempotence.  When a from_exe(P) call has returned (a record, None or a  *)
(* raised failure) and the same process next calls from_exe(P) with             *)
(* ignore_cache=false, the second call ends at once with the same outcome (a    *)
(* record is returned, with executable = P), spawns nothing and performs no     *)
(* operation on the store, whatever happened to the files in between.           *)
C1_Idempotent ==
    [][\A p \in Procs :
        (/\ Resolved(p)
         /\ loc[p].exc = NoneVal
         /\ Calling(p)
         /\ loc'[p].op = "resolve"
         /\ loc'[p].exe = loc[p].exe
         /\ ~loc'[p].ignore_cache)
        => /\ pc'[p] = "done"
           /\ loc'[p].tier = "memory"
           /\ loc'[p].outcome = loc[p].outcome
           /\ IsPythonInfo(loc[p].outcome) =>
                /\ loc'[p].returned = loc[p].returned
                /\ loc'[p].returned.executable = loc'[p].exe
           /\ loc'[p].spawned = 0
           /\ loc'[p].ops = {}
           /\ store' = store
           /\ lock' = lock]_vars

\* a second from_exe("py") served from _CACHE with the record the first one left
C1_Witness ==
    \E p \in Procs :
        /\ Resolved(p)
        /\ ncalls[p] = 2
        /\ loc[p].exe = Py
        /\ loc[p].tier = "memory"
        /\ IsPythonInfo(loc[p].returned)
        /\ loc[p].before = loc[p].returned

----------------------------------------------------------------------------
(* C2, as claimed: when the store holds an entry for P whose st_mtime differs   *)
(* from P's mtime on disk T', the next from_exe(P) with ignore_cache=false (and *)
(* a store) runs exactly one interrogation and leaves the entry with st_mtime   *)
(* T', whatever the process did before.                                         *)
C2_AnyState ==
    [][\A p \in Procs :
        (Ending(p) /\ loc'[p].stale # 0 /\ ~loc'[p].ignore_cache)
        => /\ loc'[p].spawned = 1
           /\ HandleEntry(p, store)' # NoneVal
           /\ HandleEntry(p, store)'.st_mtime = loc'[p].stale]_vars

(* C2, amended: a from_exe(P) call that goes past _CACHE and finds, under the   *)
(* lock, an entry for P whose st_mtime differs from the mtime T' the call read  *)
(* removes the entry and runs exactly one interrogation; when that yields a     *)
(* record the call leaves the entry {path P, st_mtime T', content: the record}, *)
(* and when it fails the call leaves no entry for P.  A call served from _CACHE *)
(* leaves the store as it is.                                                   *)
C2_PastMemory ==
    [][\A p \in Procs :
        /\ (/\ pc[p] = "check" /\ pc'[p] # "check"
            /\ HandleEntry(p, store) # NoneVal
            /\ HandleEntry(p, store).st_mtime # loc[p].path_modified)
           => /\ HandleEntry(p, store)' = NoneVal
              /\ pc'[p] = "run"
              /\ loc'[p].removed = "stale"
        /\ (Returning(p) /\ loc[p].removed = "stale")
           => /\ loc'[p].spawned = 1
              /\ HandleEntry(p, store)' =
                    IF IsPythonInfo(loc[p].py_info) /\ loc[p].exc = NoneVal
                    THEN [path |-> KeyOf(p), st_mtime |-> loc[p].path_modified,
                          content |-> ToDict(loc[p].py_info)]
                    ELSE NoneVal
        /\ (Ending(p) /\ loc'[p].tier = "memory") => store' = store]_vars

\* a call that found the entry stale, interrogated and left the entry with the
\* new mtime
C2_Witness ==
    \E p \in Procs :
        /\ Resolved(p)
        /\ loc[p].removed = "stale"
        /\ loc[p].stale = 2
        /\ loc[p].spawned = 1
        /\ IsPythonInfo(loc[p].returned)
        /\ store[KeyOf(p)] # NoneVal
        /\ store[KeyOf(p)].st_mtime = 2
        /\ mtime = 2

----------------------------------------------------------------------------
(* C3: a store entry for P whose path and st_mtime match the call but whose     *)
(* record names a system_executable that is not on disk when the entry is read  *)
(* is not returned: the read removes it and the call goes on to interrogate,    *)
(* exactly once; it leaves a new entry when the interrogation yields a record,  *)
(* and none when it fails.  An entry is returned only if its record names no    *)
(* system_executable or one that exists.                                        *)
C3_SysExeGone ==
    [][\A p \in Procs :
        LET data == HandleEntry(p, store)
            valid == /\ data # NoneVal
                     /\ data.path = KeyOf(p)
                     /\ data.st_mtime = loc[p].path_modified
        IN  /\ (/\ pc[p] = "check" /\ pc'[p] # "check" /\ valid
                /\ data.content.system_executable # NoPath
                /\ ~sysOnDisk)
               => /\ HandleEntry(p, store)' = NoneVal
                  /\ pc'[p] = "run"
                  /\ loc'[p].py_info = NoneVal
                  /\ loc'[p].removed = "sys_exe"
            /\ (pc[p] = "check" /\ pc'[p] = "unlock" /\ loc'[p].tier = "store")
               => /\ valid
                  /\ data.content.system_executable = NoPath \/ sysOnDisk
            /\ (Returning(p) /\ loc[p].removed = "sys_exe")
               => /\ loc'[p].spawned = 1
                  /\ loc'[p].tier = "fresh"
                  /\ HandleEntry(p, store)' =
                        IF IsPythonInfo(loc[p].py_info) /\ loc[p].exc = NoneVal
                        THEN [path |-> KeyOf(p), st_mtime |-> loc[p].path_modified,
                              content |-> ToDict(loc[p].py_info)]
                        ELSE NoneVal]_vars

\* a call that found the entry's system executable gone, interrogated and wrote
\* a new entry
C3_Witness ==
    \E p \in Procs :
        /\ Resolved(p)
        /\ loc[p].removed = "sys_exe"
        /\ loc[p].spawned = 1
        /\ IsPythonInfo(loc[p].returned)
        /\ ~sysOnDisk
        /\ store[KeyOf(p)] # NoneVal
        /\ store[KeyOf(p)].content = ToDict(loc[p].py_info)

----------------------------------------------------------------------------
(* C4: two processes that each resolve, as their first call, the same string P  *)
(* of a path nobody has resolved, while the file is not modified and every      *)
(* interrogation yields a record: each gets the record the interrogation        *)
(* produced, with executable = P, the two records are equal, and the store ends *)
(* with one entry, for P, with exactly the keys path, st_mtime and content.     *)
(* And whenever a process reads the store inside its locked block, the entry of *)
(* its handle is absent or whole.                                               *)
C4_Race ==
    /\ \A p \in Procs :
          pc[p] = "check" =>
              \/ HandleEntry(p, store) = NoneVal
              \/ DOMAIN HandleEntry(p, store) = EntryKeys
    /\ (/\ \A p \in Procs :
              /\ Resolved(p)
              /\ ncalls[p] = 1
              /\ loc[p].exc = NoneVal
              /\ IsPythonInfo(loc[p].py_info)
        /\ loc[1].exe = loc[2].exe
        /\ mtime = 1)
       => /\ loc[1].returned = loc[2].returned
          /\ \A p \in Procs :
                /\ IsPythonInfo(loc[p].returned)
                /\ loc[p].returned.executable = loc[p].exe
                /\ \A q \in Procs : loc[q].spawned = 1 => loc[p].returned = loc[q].py_info
          /\ \E q \in Procs : loc[q].spawned = 1
          /\ \A k \in Keys :
                IF k = KeyOf(1)
                THEN /\ store[k] # NoneVal
                     /\ DOMAIN store[k] = EntryKeys
                     /\ store[k] = [path |-> k, st_mtime |-> 1,
                                    content |-> ToDict(loc[1].returned)]
                ELSE store[k] = NoneVal

\* both processes have resolved "py": one interrogated, the other waited for the
\* lock and read the entry
C4_Witness ==
    /\ \A p \in Procs : Resolved(p) /\ ncalls[p] = 1 /\ loc[p].exe = Py
    /\ loc[1].tier = "fresh" /\ loc[1].spawned = 1 /\ IsPythonInfo(loc[1].returned)
    /\ loc[2].tier = "store" /\ loc[2].spawned = 0 /\ IsPythonInfo(loc[2].returned)
    /\ loc[2].before = NoneVal
    /\ mtime = 1

----------------------------------------------------------------------------
(* C5: failures are never persisted.  Every entry of the store is whole and its *)
(* content is the export of a record (or is on its way to the disk under        *)
(* the writer's lock); an entry is put only by a call that has just run an       *)
(* interrogation that yielded a record, and holds that record's export; a call  *)
(* whose interrogation failed (or whose payload did not decode) has written     *)
(* nothing and leaves no entry on its handle when it returns or raises.         *)
C5_EntriesAreRecords ==
    \A k \in Keys :
        \/ store[k] = NoneVal
        \/ /\ DOMAIN store[k] = EntryKeys
           /\ store[k].path = k
           /\ DOMAIN store[k].content = RecordKeys
           /\ PathOf(store[k].content.executable) = k
        \/ /\ lock[k] # 0
           /\ pc[lock[k]] = "written"

C5_WritesAndFailures ==
    \A p \in Procs :
        /\ \A k \in Keys :
              (store'[k] # store[k] /\ store'[k] # NoneVal /\ pc'[p] # pc[p])
              => /\ KeyOf(p) = k
                 /\ pc[p] \in {"write", "written"}
                 /\ loc[p].spawned = 1
                 /\ IsPythonInfo(loc[p].py_info)
                 /\ pc[p] = "written" => store'[k].content = ToDict(loc[p].py_info)
        /\ (Returning(p) /\ loc[p].spawned = 1
                /\ (IsException(loc[p].py_info) \/ loc[p].exc # NoneVal))
           => /\ "write" \notin loc'[p].ops
              /\ HandleEntry(p, store)' = NoneVal

C5_NeverPersisted == []C5_EntriesAreRecords /\ [][C5_WritesAndFailures]_vars

\* a call whose interrogation failed has returned, and the store has no entry
C5_Witness ==
    \E p \in Procs :
        /\ Resolved(p)
        /\ loc[p].spawned = 1
        /\ IsException(loc[p].outcome)
        /\ loc[p].removed = "stale"
        /\ store[KeyOf(p)] = NoneVal

----------------------------------------------------------------------------
(* C6, as claimed: when a from_exe(P) call began with a failure recorded for P  *)
(* in _CACHE, the process's next from_exe(P) with ignore_cache=false yields     *)
(* that failure and spawns nothing (nothing but clear() intervenes); and a      *)
(* call with ignore_cache=true that begins with a failure recorded for P runs   *)
(* an interrogation.                                                            *)
C6_UntilClear ==
    [][\A p \in Procs :
        /\ (/\ Resolved(p) /\ IsException(loc[p].before)
            /\ Calling(p) /\ loc'[p].op = "resolve"
            /\ loc'[p].exe = loc[p].exe /\ ~loc'[p].ignore_cache)
           => /\ pc'[p] = "done"
              /\ loc'[p].outcome = loc[p].before
              /\ loc'[p].spawned = 0
        /\ (Ending(p) /\ IsException(loc'[p].before) /\ loc'[p].ignore_cache)
           => loc'[p].spawned = 1]_vars

(* C6, amended: while a failure recorded for P stays in _CACHE, every           *)
(* from_exe(P) with ignore_cache=false yields that failure, spawns nothing and  *)
(* touches neither tier; a recorded failure leaves _CACHE only by clear(), by   *)
(* the end of the process, or by a from_exe(P, ignore_cache=true), which        *)
(* replaces it with its own outcome.  A from_exe(P, ignore_cache=true) that     *)
(* begins with a failure recorded is not served from _CACHE: it goes to the     *)
(* store and interrogates unless the store holds a valid entry for P; a new     *)
(* process starts with no failure recorded.  Every failure an interrogation     *)
(* yields is recorded in _CACHE.                                                *)
C6_NegativeCache ==
    [][\A p \in Procs :
        /\ (Ending(p) /\ IsException(loc'[p].before) /\ ~loc'[p].ignore_cache)
           => /\ Calling(p)
              /\ loc'[p].tier = "memory"
              /\ loc'[p].outcome = loc'[p].before
              /\ loc'[p].spawned = 0
              /\ loc'[p].ops = {}
              /\ cache' = cache /\ store' = store
        /\ (Ending(p) /\ IsException(loc'[p].before) /\ loc'[p].ignore_cache)
           => /\ Returning(p)
              /\ \/ loc'[p].tier = "fresh" /\ loc'[p].spawned = 1
                 \/ loc'[p].tier = "store" /\ loc'[p].spawned = 0
                 \/ loc'[p].exc # NoneVal
              /\ loc'[p].exc = NoneVal => cache'[p][KeyOf(p)'] = loc'[p].outcome
        /\ (Returning(p) /\ IsException(loc[p].py_info) /\ loc[p].exc = NoneVal)
           => /\ loc'[p].outcome = loc[p].py_info
              /\ cache'[p][KeyOf(p)] = loc[p].py_info
        /\ \A k \in Keys :
              (IsException(cache[p][k]) /\ cache'[p][k] # cache[p][k])
              => \/ Calling(p) /\ loc'[p].op = "clear"
                 \/ loc'[p].op = "none"
                 \/ Returning(p) /\ KeyOf(p) = k /\ loc[p].ignore_cache
        /\ loc'[p].op = "none" => \A k \in Keys : ~IsException(cache'[p][k])]_vars

\* a recorded failure served again from _CACHE
C6_Witness ==
    \E p \in Procs :
        /\ Resolved(p)
        /\ IsException(loc[p].before)
        /\ ~loc[p].ignore_cache
        /\ loc[p].tier = "memory"
        /\ loc[p].outcome = loc[p].before
        /\ loc[p].spawned = 0

----------------------------------------------------------------------------
(* C7: when the outcome of a from_exe call is a failure, fresh or taken from    *)
(* _CACHE, the caller gets the failure raised if raise_on_error is true and     *)
(* None, with nothing raised, if it is false; whatever the flag, _CACHE holds   *)
(* the failure under the key and a call that interrogated leaves no entry on    *)
(* its handle.                                                                  *)
C7_RaiseOnError ==
    \A p \in Procs :
        (Resolved(p) /\ IsException(loc[p].outcome))
        => /\ loc[p].returned =
                IF loc[p].raise_on_error THEN Raised(loc[p].outcome) ELSE NoneVal
           /\ cache[p][KeyOf(p)] = loc[p].outcome
           /\ loc[p].tier = "fresh" => HandleEntry(p, store) = NoneVal

\* a failure taken from _CACHE and swallowed into None
C7_Witness ==
    \E p \in Procs :
        /\ Resolved(p)
        /\ IsException(loc[p].outcome)
        /\ loc[p].tier = "memory"
        /\ ~loc[p].raise_on_error
        /\ loc[p].returned = NoneVal

----------------------------------------------------------------------------
(* C8: every from_exe(exe) call that returns a record returns it with           *)
(* executable = exe, the string passed, whichever tier produced the record.     *)
C8_RequestedPath ==
    \A p \in Procs :
        (Resolved(p) /\ IsPythonInfo(loc[p].returned))
        => /\ loc[p].returned.executable = loc[p].exe
           /\ loc[p].returned = loc[p].outcome
           /\ loc[p].tier \in {"memory", "store", "fresh"}

\* a record served from _CACHE that an earlier call had bound to another string
\* of the same path
C8_Witness ==
    \E p \in Procs :
        /\ Resolved(p)
        /\ loc[p].tier = "memory"
        /\ IsPythonInfo(loc[p].before)
        /\ loc[p].before.executable # loc[p].exe
        /\ loc[p].returned.executable = loc[p].exe

----------------------------------------------------------------------------
(* C9: alias independence, for "py" and its symlink "ln".  A record cached or   *)
(* stored under "py" is bound to a string of "py" and one under "ln" to "ln";   *)
(* a from_exe("ln") is served from _CACHE only with what was cached under "ln"; *)
(* and no step of a call for one alias changes what is cached or stored under   *)
(* the other.                                                                   *)
C9_Keys ==
    /\ \A p \in Procs :
          /\ IsPythonInfo(cache[p][Py]) => cache[p][Py].executable \in {Py, DotPy}
          /\ IsPythonInfo(cache[p][Ln]) => cache[p][Ln].executable = Ln
          /\ (Resolved(p) /\ loc[p].exe = Ln)
             => /\ loc[p].tier = "memory" =>
                      /\ loc[p].before # NoneVal
                      /\ IsPythonInfo(loc[p].before) => loc[p].before.executable = Ln
                /\ loc[p].exc = NoneVal => cache[p][Ln] = loc[p].outcome
    /\ \A k \in {Py, Ln} :
          (store[k] # NoneVal /\ HasKeys(store[k]))
          => /\ store[k].path = k
             /\ store[k].content.executable \in (IF k = Py THEN {Py, DotPy} ELSE {Ln})

C9_Frame ==
    \A p \in Procs :
        (loc'[p].op = "resolve" /\ (Calling(p) \/ pc[p] # "done"))
        => /\ loc'[p].exe = Ln => cache'[p][Py] = cache[p][Py] /\ store'[Py] = store[Py]
           /\ loc'[p].exe \in {Py, DotPy} =>
                  cache'[p][Ln] = cache[p][Ln] /\ store'[Ln] = store[Ln]

C9_AliasIndependence == []C9_Keys /\ [][C9_Frame]_vars

\* from_exe("ln") has interrogated although "py" was cached, and each alias has
\* its own record and its own entry
C9_Witness ==
    \E p \in Procs :
        /\ Resolved(p)
        /\ loc[p].exe = Ln
        /\ loc[p].tier = "fresh"
        /\ ~loc[p].ignore_cache
        /\ IsPythonInfo(cache[p][Py]) /\ cache[p][Py].executable = Py
        /\ IsPythonInfo(cache[p][Ln]) /\ cache[p][Ln].executable = Ln
        /\ store[Py] # NoneVal /\ store[Ln] # NoneVal

----------------------------------------------------------------------------
(* C10: with app_data None, from_exe does not fail for want of an adapter, no   *)
(* step of the call changes the store or its locks, and every call that goes    *)
(* past _CACHE runs the interrogation, whatever the store holds.                *)
C10_Calls ==
    \A p \in Procs :
        (Resolved(p) /\ loc[p].app_data = NoneVal)
        => /\ loc[p].exc # AttributeError
           /\ loc[p].tier \in {"memory", "fresh"}
           /\ loc[p].tier = "fresh" => loc[p].spawned = 1
           /\ loc[p].tier = "memory" => ~loc[p].ignore_cache /\ loc[p].before # NoneVal

C10_NothingPersisted ==
    \A p \in Procs :
        (loc'[p].op = "resolve" /\ loc'[p].app_data = NoneVal
            /\ (Calling(p) \/ pc[p] # "done"))
        => store' = store /\ lock' = lock

C10_DisabledStore == []C10_Calls /\ [][C10_NothingPersisted]_vars

\* a call without adapter has interrogated although the store holds an entry
\* that matches
C10_Witness ==
    \E p \in Procs :
        /\ Resolved(p)
        /\ loc[p].app_data = NoneVal
        /\ loc[p].spawned = 1
        /\ IsPythonInfo(loc[p].returned)
        /\ store[KeyOf(p)] # NoneVal
        /\ store[KeyOf(p)].st_mtime = loc[p].path_modified

----------------------------------------------------------------------------
(* C11: a malformed store entry self-heals.  When the call reads, under the     *)
(* lock, an entry that lacks one of the keys path, st_mtime, content, or has a  *)
(* key besides them, or whose content decodes into no record, it removes the    *)
(* entry and goes on to interrogate, and no exception leaves the locked block   *)
(* because of the entry.                                                        *)
IsMalformed(data) ==
    \/ DOMAIN data # EntryKeys
    \/ ~Decodable(data.content)

C11_SelfHeals ==
    [][\A p \in Procs :
        (/\ pc[p] = "check" /\ pc'[p] # "check"
         /\ HandleEntry(p, store) # NoneVal
         /\ IsMalformed(HandleEntry(p, store)))
        => /\ HandleEntry(p, store)' = NoneVal
           /\ pc'[p] = "run"
           /\ loc'[p].exc = NoneVal]_vars

----------------------------------------------------------------------------
(* C12: administrative reset.  When clear(app_data) has ended, for app_data a   *)
(* store or None, it has raised nothing, _CACHE is empty (the entry of the      *)
(* running interpreter included) and a store that was passed holds no entry;    *)
(* and the process's next from_exe, of any path, is not served from _CACHE and  *)
(* finds no entry on its handle.                                                *)
C12_Cleared ==
    \A p \in Procs :
        (pc[p] = "done" /\ loc[p].op = "clear")
        => /\ loc[p].exc = NoneVal
           /\ loc[p].returned = NoneVal
           /\ \A k \in Keys : cache[p][k] = NoneVal
           /\ loc[p].app_data = AppData => \A k \in Keys : store[k] = NoneVal

C12_NextResolve ==
    \A p \in Procs :
        (/\ pc[p] = "done" /\ loc[p].op = "clear"
         /\ Calling(p) /\ loc'[p].op = "resolve")
        => /\ pc'[p] = "lock"
           /\ loc'[p].tier # "memory"
           /\ HandleEntry(p, store)' = NoneVal

C12_Reset == []C12_Cleared /\ [][C12_NextResolve]_vars

----------------------------------------------------------------------------
(* C13, as claimed: when the child prints noise1, the reversed start cookie,    *)
(* the payload, the reversed end cookie and noise2, and neither reversed cookie *)
(* occurs inside noise1 or inside the payload, the text given to the decoder is *)
(* the payload and what is written to sys.stdout is noise1 then noise2 (each if *)
(* not empty), nothing else.                                                    *)
Framed == child.at = "end" /\ child.marks = <<TRUE, TRUE>>

NoCookieIn(text) ==
    /\ Find(text, Reversed(child.start_cookie)) = -1
    /\ Find(text, Reversed(child.end_cookie)) = -1

RecoversPayload ==
    /\ child.out = child.payload
    /\ child.written = StdoutWrite(StdoutWrite(<<>>, child.noise1), child.noise2)

C13_NoCookieInside ==
    (Framed /\ NoCookieIn(child.noise1) /\ NoCookieIn(child.payload)) => RecoversPayload

(* C13, amended: when moreover the first place where the reversed start cookie  *)
(* occurs in stdout is the start marker itself, and the first place where the   *)
(* reversed end cookie occurs after the start marker is the end marker itself,  *)
(* the decoder gets the payload and noise1 and noise2 are written, in order.    *)
C13_FirstOccurrence ==
    (/\ Framed
     /\ Find(child.stdout, Reversed(child.start_cookie)) = Len(child.noise1)
     /\ Find(child.payload \o Reversed(child.end_cookie) \o child.noise2,
             Reversed(child.end_cookie)) = Len(child.payload))
    => RecoversPayload

\* noise on both sides of a payload, all recovered
C13_Witness ==
    /\ Framed
    /\ child.noise1 # <<>> /\ child.payload # <<>> /\ child.noise2 # <<>>
    /\ child.out_starts = Len(child.noise1)
    /\ child.out_ends = Len(child.payload)
    /\ child.out = child.payload
    /\ child.written = <<child.noise1, child.noise2>>

----------------------------------------------------------------------------
(* C14: the critical section is serialized.  For each path at most one process  *)
(* is inside the locked block (from the existence check to the last remove or   *)
(* write), and it holds the path's lock from its first store operation to its   *)
(* last without a gap; no process changes or reads the store outside the block. *)
(* So two processes that each resolve, as their first call, the same path that  *)
(* nobody resolved, with the file unmodified and every interrogation yielding a *)
(* record, run one interrogation between them: the other reads the entry the    *)
(* first wrote.                                                                 *)
InBlock(p) == pc[p] \in {"check", "run", "write", "written", "unlock"}

C14_OneInside ==
    /\ \A p \in Procs :
          /\ InBlock(p) => lock[KeyOf(p)] = p
          /\ (loc[p].op = "resolve" /\ loc[p].ops \cap {"exists", "read", "remove", "write"} # {})
             => (InBlock(p) \/ pc[p] = "done") /\ "lock" \in loc[p].ops
    /\ \A p, q \in Procs : (p # q /\ InBlock(p) /\ InBlock(q)) => KeyOf(p) # KeyOf(q)
    /\ (/\ \A p \in Procs :
              /\ Resolved(p) /\ ncalls[p] = 1
              /\ loc[p].exc = NoneVal /\ IsPythonInfo(loc[p].py_info)
        /\ KeyOf(1) = KeyOf(2)
        /\ mtime = 1)
       => /\ loc[1].spawned + loc[2].spawned = 1
          /\ \A p \in Procs : loc[p].spawned = 0 => loc[p].tier = "store"

C14_HeldThroughout ==
    \A p \in Procs :
        /\ (InBlock(p) /\ pc'[p] # "done") => lock'[KeyOf(p)] = p /\ InBlock(p)'
        /\ (pc'[p] # pc[p] /\ (store' # store \/ loc'[p].ops # loc[p].ops) /\ ~Calling(p))
           => lock[KeyOf(p)] = p \/ pc[p] = "lock"
        /\ (store' # store) => \E q \in Procs : InBlock(q) /\ pc'[q] # pc[q]

C14_Serialized == []C14_OneInside /\ [][C14_HeldThroughout]_vars

\* the second process waited at the lock while the first interrogated and wrote,
\* then read the entry
C14_Witness ==
    /\ \A p \in Procs : Resolved(p) /\ ncalls[p] = 1
    /\ KeyOf(1) = KeyOf(2) /\ loc[1].exe # loc[2].exe
    /\ mtime = 1
    /\ loc[2].spawned = 1 /\ "write" \in loc[2].ops
    /\ loc[1].spawned = 0 /\ loc[1].tier = "store" /\ loc[1].ops = {"locate", "lock", "exists", "read"}

----------------------------------------------------------------------------
(* C15: the lock is released on every exit path.  A process that is not inside  *)
(* a call holds no lock, whichever way its last call left the locked block: a   *)
(* store hit, a removal, an interrogation with or without a write, or an        *)
(* exception raised inside the block.  And as the child exits, every call       *)
(* inside the block leaves it, and a process waiting for the lock gets it.      *)
C15_NoDanglingLock ==
    \A p \in Procs : pc[p] = "done" => \A k \in Keys : lock[k] # p

C15_Released ==
    /\ []C15_NoDanglingLock
    /\ \A p \in Procs : InBlock(p) ~> (pc[p] = "done")
    /\ \A p \in Procs : (pc[p] = "lock") ~> (pc[p] = "check" /\ lock[KeyOf(p)] = p)

\* the lock a call took and left by an exception is now held by the other process
C15_Witness ==
    /\ Resolved(1)
    /\ loc[1].exc # NoneVal
    /\ "lock" \in loc[1].ops
    /\ pc[2] = "check"
    /\ lock[KeyOf(2)] = 2
    /\ KeyOf(1) = KeyOf(2)

----------------------------------------------------------------------------
(* C16: a spawn failure is a failure like a non-zero exit.  When Popen raises   *)
(* OSError with errno e, no exception leaves _run_subprocess: the call's        *)
(* outcome is the RuntimeError made of exit code e, an empty stdout and the     *)
(* error's description as stderr; nothing is written to the store, and when     *)
(* the call ends _CACHE holds the failure, the handle has no entry, and the     *)
(* caller gets it raised or None as raise_on_error says.  A file that is not    *)
(* there can only fail to spawn.                                                *)
C16_SpawnFailure ==
    \A p \in Procs :
        /\ loc[p].os_error # 0
           => LET failure == RuntimeError(loc[p].exe, loc[p].os_error, "",
                                          Strerror(loc[p].os_error))
              IN  /\ loc[p].os_error \in SpawnErrnos \cup NoSuchFile
                  /\ loc[p].exc = NoneVal
                  /\ loc[p].py_info = failure
                  /\ pc[p] \in {"unlock", "done"}
                  /\ "write" \notin loc[p].ops
                  /\ Resolved(p)
                     => /\ loc[p].outcome = failure
                        /\ cache[p][KeyOf(p)] = failure
                        /\ HandleEntry(p, store) = NoneVal
                        /\ loc[p].returned =
                              IF loc[p].raise_on_error THEN Raised(failure) ELSE NoneVal
        /\ (loc[p].spawned = 1 /\ loc[p].path_modified = -1 /\ mtime = 0 /\ loc[p].exc = NoneVal)
           => loc[p].os_error \in NoSuchFile

\* the executable is gone: the spawn failed with ENOENT, the failure is cached
\* and the stale entry of the store was removed
C16_Witness ==
    \E p \in Procs :
        /\ Resolved(p)
        /\ loc[p].os_error = 2
        /\ loc[p].removed = "stale"
        /\ IsException(cache[p][KeyOf(p)])
        /\ cache[p][KeyOf(p)].err = "No such file or directory"
        /\ store[KeyOf(p)] = NoneVal

----------------------------------------------------------------------------
(* C17: a marker that is missing is no failure, and what remains is payload.    *)
(* With code 0: when the reversed start cookie is not in stdout, the text for   *)
(* the decoder begins where stdout begins and no prefix is written; when the    *)
(* reversed end cookie is not in what follows the start marker (or in stdout,   *)
(* if there is none), the text runs to the end of stdout and no suffix is       *)
(* written; when both are missing the decoder gets all of stdout and nothing is *)
(* written.  The framing always reaches the decoder.                            *)
C17_MissingMarker ==
    child.at = "end" =>
        LET stdout == child.stdout
            s == Find(stdout, Reversed(child.start_cookie))
            rest == IF s = -1 THEN stdout ELSE From(stdout, s + COOKIE_LENGTH)
            e == Find(rest, Reversed(child.end_cookie))
            prefix == IF s = -1 THEN <<>> ELSE Upto(stdout, s)
            suffix == IF e = -1 THEN <<>> ELSE From(rest, e + COOKIE_LENGTH)
        IN  /\ s = -1 => /\ child.out = Upto(stdout, Len(child.out))
                         /\ child.written = StdoutWrite(<<>>, suffix)
            /\ e = -1 => /\ child.out = rest
                         /\ child.written = StdoutWrite(<<>>, prefix)
            /\ (s = -1 /\ e = -1) => child.out = stdout /\ child.written = <<>>

\* no start marker, an end marker: the payload is what precedes the end marker
C17_Witness ==
    /\ child.at = "end"
    /\ child.marks = <<FALSE, TRUE>>
    /\ child.out_starts = -1
    /\ child.out_ends = Len(child.noise1) + Len(child.payload)
    /\ child.out = child.noise1 \o child.payload
    /\ child.noise1 # <<>> /\ child.payload # <<>>
    /\ child.written = <<child.noise2>>

----------------------------------------------------------------------------
(* C18: the mtime of an entry is that of its content.  Every whole entry        *)
(* {path, st_mtime T, content C} of the store holds a content obtained from an  *)
(* interrogation run while the file's mtime was T ("info" is the version of the *)
(* file the child ran).                                                         *)
C18_MtimeOfContent ==
    \A k \in Keys :
        (store[k] # NoneVal /\ DOMAIN store[k] = EntryKeys)
        => store[k].content.info = store[k].st_mtime

----------------------------------------------------------------------------
(* C19: ignore_cache bypasses _CACHE only.  A from_exe(P, ignore_cache=true)    *)
(* is never served from _CACHE: it takes the handle, the lock and looks for the *)
(* entry.  When the entry it finds is valid (path and st_mtime match, system    *)
(* executable absent from the record or present on disk) it runs no child and   *)
(* its outcome is the record decoded from the entry, bound to the string        *)
(* passed.  Whenever the call ends with an outcome, record or failure, _CACHE   *)
(* holds that outcome under P's key in place of what it held.                   *)
C19_Ended ==
    \A p \in Procs :
        (Resolved(p) /\ loc[p].ignore_cache)
        => /\ loc[p].tier # "memory"
           /\ {"locate", "lock", "exists"} \subseteq loc[p].ops
           /\ loc[p].exc = NoneVal
              => /\ loc[p].tier \in {"store", "fresh"}
                 /\ cache[p][KeyOf(p)] = loc[p].outcome
                 /\ loc[p].outcome = FixExecutable(loc[p].py_info, loc[p].exe)
           /\ loc[p].tier = "store"
              => /\ loc[p].spawned = 0
                 /\ HandleEntry(p, store) # NoneVal
                 /\ loc[p].py_info = FromDict(HandleEntry(p, store).content)

C19_ValidEntry ==
    \A p \in Procs :
        /\ (Calling(p) /\ loc'[p].op = "resolve" /\ loc'[p].ignore_cache)
           => pc'[p] = "lock" /\ cache' = cache
        /\ LET data == HandleEntry(p, store)
           IN  (/\ pc[p] = "check" /\ pc'[p] # "check" /\ loc[p].ignore_cache
                /\ data # NoneVal
                /\ data.path = KeyOf(p) /\ data.st_mtime = loc[p].path_modified
                /\ data.content.system_executable = NoPath \/ sysOnDisk)
               => /\ pc'[p] = "unlock"
                  /\ loc'[p].tier = "store"
                  /\ loc'[p].py_info = FromDict(data.content)
                  /\ store' = store

C19_IgnoreCache == []C19_Ended /\ [][C19_ValidEntry]_vars

\* a record was cached for P, and the call with ignore_cache read the store's
\* entry and spawned nothing
C19_Witness ==
    \E p \in Procs :
        /\ Resolved(p)
        /\ loc[p].ignore_cache
        /\ IsPythonInfo(loc[p].before)
        /\ loc[p].tier = "store"
        /\ loc[p].spawned = 0
        /\ loc[p].ops = {"locate", "lock", "exists", "read"}
        /\ cache[p][KeyOf(p)] = loc[p].outcome
        /\ loc[p].outcome # loc[p].before

----------------------------------------------------------------------------
(* C20: _CACHE is updated exactly and locally.  When a from_exe(exe) that went  *)
(* past _CACHE ends with an outcome, _CACHE maps the key of exe to that         *)
(* outcome; no step of a from_exe call adds, removes or replaces the entry of   *)
(* another key, in its process or in another; a call that ends by an exception  *)
(* changes no entry; and a call served from _CACHE changes nothing but the      *)
(* executable of the record it returns.                                         *)
C20_Exact ==
    \A p \in Procs :
        (Resolved(p) /\ loc[p].tier # "memory" /\ loc[p].exc = NoneVal)
        => /\ loc[p].outcome # NoneVal
           /\ cache[p][KeyOf(p)] = loc[p].outcome

C20_Local ==
    \A p \in Procs :
        (loc'[p].op = "resolve" /\ (Calling(p) \/ pc'[p] # pc[p]))
        => LET key == PathOf(loc'[p].exe)
           IN  /\ \A k \in Keys \ {key} : cache'[p][k] = cache[p][k]
               /\ \A q \in Procs \ {p} : cache'[q] = cache[q]
               /\ ~Ending(p) => cache' = cache
               /\ (Returning(p) /\ loc[p].exc = NoneVal) => cache'[p][key] = loc'[p].outcome
               /\ (Returning(p) /\ loc[p].exc # NoneVal) => cache' = cache
               /\ (Calling(p) /\ pc'[p] = "done" /\ loc'[p].exc = NoneVal)
                  => /\ loc'[p].tier = "memory"
                     /\ cache'[p][key] = loc'[p].outcome
                     /\ IF IsPythonInfo(cache[p][key])
                        THEN cache'[p][key] = [cache[p][key] EXCEPT !.executable = loc'[p].exe]
                        ELSE cache'[p][key] = cache[p][key]

C20_CacheUpdate == []C20_Exact /\ [][C20_Local]_vars

\* two keys cached besides the running interpreter's, each with its call's outcome
C20_Witness ==
    \E p \in Procs :
        /\ Resolved(p)
        /\ loc[p].tier = "fresh"
        /\ KeyOf(p) = Ln
        /\ cache[p][Ln] = loc[p].outcome
        /\ IsException(cache[p][Py])
        /\ cache[p][SysExecutable] = InitCache[SysExecutable]

====
